---- MODULE Spec2Model ----
(***************************************************************************)
(* Model of src/Liquidity_app.py, the "Market Checklist" Streamlit script.  *)
(*                                                                         *)
(* Units.  A score (indicator score, category total, grand total, the      *)
(* argument of calculate_position_percentage) is an integer number of      *)
(* hundredths of a point: 1.0 is 100, 0.5 is 50, 7.24 is 724.  Every such  *)
(* value of the program is a decimal with at most two places in the cases  *)
(* modelled, and x.25 / x.75 / x.5 are exact binary floats, so Python's     *)
(* round() (round half to even) is reproduced exactly on hundredths.       *)
(* rounded_score is kept in half-points (7.5 is 15).                        *)
(* A price or moving average is a rational [n, d] with d > 0; None (the    *)
(* Python None) is the record with d = 0.                                  *)
(***************************************************************************)
EXTENDS Integers, Sequences, FiniteSets, TLC

VARIABLES
    score_arg,        \* argument of a call of calculate_position_percentage
    position_result,  \* its return value, NoCall before the call
    stage_args,       \* <<price, ma50, ma150, ma200>> of a call of calculate_stage
    stage_result,     \* its return value <<label, score>>, NoStage before the call
    fn_args,          \* arguments of a call of one of the helper functions
    fn_result,        \* what the call returned, NoCall before the call
    pc,               \* where the script run is: "idle" (no run), "rerun", "tab1", "tab2", "tab3"
    runs,             \* script runs started so far
    session_live,     \* whether st.session_state of the browser session is initialised
    citi_value,       \* st.session_state.citi_value
    citi_prev,        \* st.session_state.citi_prev
    r3fi_manual,      \* st.session_state.r3fi_manual
    uptrend_status,   \* st.session_state.uptrend_status_<track>
    market_pulse,     \* st.session_state.market_pulse_<track>
    total_score_liq,  \* st.session_state.total_score_liq
    total_score,      \* st.session_state.total_score_<track>
    score_sent,       \* st.session_state.score_sent_<track>
    score_trend,      \* st.session_state.score_trend_<track>
    user_inputs_file, \* the file user_inputs.json: [exists, data]
    saved_inputs,     \* the script global saved_inputs of the current run
    widget,           \* what the input widgets return in the current run
    summary,          \* the overall summary rendered by the current run, per track
    cache_liq,        \* st.cache_data entry of fetch_liquidity_data
    cache_sent,       \* st.cache_data entry of fetch_sentiment_data
    cache_trend,      \* st.cache_data entry of fetch_trend_data
    scores_liq,       \* the script global scores_liq of the current run
    scores_sent_us,   \* scores_sent_us of the current run
    scores_sent_hsi,  \* scores_sent_hsi of the current run
    scores_trend,     \* scores_trend_<track> of the current run
    stage_shown       \* the stage label shown for each index by the current run

helpervars == <<fn_args, fn_result>>

purevars == <<score_arg, position_result, stage_args, stage_result, helpervars>>

manualvars == <<citi_value, citi_prev, r3fi_manual, uptrend_status, market_pulse>>

scorevars == <<total_score_liq, total_score, score_sent, score_trend>>

cachevars == <<cache_liq, cache_sent, cache_trend>>

runvars == <<saved_inputs, widget, summary, scores_liq, scores_sent_us, scores_sent_hsi,
             scores_trend, stage_shown>>

appvars == <<pc, runs, session_live, manualvars, scorevars, user_inputs_file,
             cachevars, runvars>>

vars == <<purevars, appvars>>

\* ------------------------------------------------------------------ bounds
\* largest argument (hundredths) given to calculate_position_percentage
MaxScoreArg == 1250

\* script runs in one behaviour
MaxRuns == 2

\* last year of the calendar on which get_latest_month_end is called
MaxYear == 2024

\* largest magnitude of a surprise-index value typed in
MaxCiti == 6

\* longest series given to calc_ma on its own
MaxLen == 5

\* ----------------------------------------------------------------- numbers
None == [n |-> 0, d |-> 0]

Num(i) == [n |-> i, d |-> 1]

\* a > b on Python floats holding the rationals a and b
gt(a, b) == a.n * b.d > b.n * a.d

lt(a, b) == gt(b, a)

\* int(x) for x = n/d, d > 0: truncation toward zero
int_trunc(n, d) == IF n >= 0 THEN n \div d ELSE -((-n) \div d)

\* round(x) for x = n/d, d > 0: Python 3 rounds half to even
round_half_even(n, d) ==
    LET fl == n \div d
        r2 == 2 * (n % d)
    IN  IF r2 > d \/ (r2 = d /\ fl % 2 = 1) THEN fl + 1 ELSE fl


\* ------------------------------------------------------- rational arithmetic
\* (Python float arithmetic on the values the model uses, kept exact)
RECURSIVE gcd(_, _)
gcd(a, b) == IF b = 0 THEN a ELSE gcd(b, a % b)

absval(i) == IF i < 0 THEN -i ELSE i

rnorm(n, d) ==
    LET g == gcd(absval(n), absval(d))
        sg == IF d < 0 THEN -1 ELSE 1
    IN  [n |-> sg * (n \div g), d |-> sg * (d \div g)]

radd(a, b) == rnorm(a.n * b.d + b.n * a.d, a.d * b.d)

rsub(a, b) == rnorm(a.n * b.d - b.n * a.d, a.d * b.d)

rmul(a, b) == rnorm(a.n * b.n, a.d * b.d)

\* a / b, b nonzero
rdiv(a, b) == rnorm(a.n * b.d, a.d * b.n)

\* ------------------------------------------------------------------- dates
\* a date is the integer year*10000 + month*100 + day, ordered as dates are
Date(y, m, d) == y * 10000 + m * 100 + d

Year(date) == date \div 10000

Month(date) == (date \div 100) % 100

Day(date) == date % 100

isleap(y) == y % 4 = 0 /\ (y % 100 # 0 \/ y % 400 = 0)

\* calendar.monthrange(year, month)[1]
monthrange_days(year, month) ==
    IF month = 2 THEN (IF isleap(year) THEN 29 ELSE 28)
    ELSE IF month \in {4, 6, 9, 11} THEN 30
    ELSE 31

get_month_end_date(year, month) == Date(year, month, monthrange_days(year, month))

\* the year is not taken back when the target month wraps below January
get_latest_month_end_no_rollover(now) ==
    LET target_month ==
            IF Day(now) > 5
            THEN (IF Month(now) > 1 THEN Month(now) - 1 ELSE 12)
            ELSE (IF Month(now) > 2 THEN Month(now) - 2 ELSE 12 + Month(now) - 2)
    IN  get_month_end_date(Year(now), target_month)

\* the first five days look three months back
get_latest_month_end_three_back(now) ==
    LET back == IF Day(now) > 5 THEN 1 ELSE 3
        target_month == IF Month(now) > back THEN Month(now) - back ELSE 12 + Month(now) - back
        target_year == IF Month(now) > back THEN Year(now) ELSE Year(now) - 1
    IN  get_month_end_date(target_year, target_month)

get_latest_month_end(now) ==
    LET target_month ==
            IF Day(now) > 5
            THEN (IF Month(now) > 1 THEN Month(now) - 1 ELSE 12)
            ELSE (IF Month(now) > 2 THEN Month(now) - 2 ELSE 12 + Month(now) - 2)
        target_year ==
            IF Day(now) > 5
            THEN (IF Month(now) > 1 THEN Year(now) ELSE Year(now) - 1)
            ELSE (IF Month(now) > 2 THEN Year(now) ELSE Year(now) - 1)
    IN  get_month_end_date(target_year, target_month)

\* while target_month <= 0: target_month += 12; target_year -= 1
RECURSIVE roll_year(_, _)
roll_year(target_year, target_month) ==
    IF target_month <= 0 THEN roll_year(target_year - 1, target_month + 12)
    ELSE <<target_year, target_month>>

\* ------------------------------------------------------------------ series
\* A dated series is a sequence of [t |-> date, v |-> number] in date order;
\* a plain series (only its order is used) is a sequence of numbers.

\* data[data.index <= date]
upto(data, date) == SelectSeq(data, LAMBDA e : e.t <= date)

\* series.iloc[-1]
iloc_last(series) == series[Len(series)]

\* the sum of series[lo .. hi]
RECURSIVE sum_range(_, _, _)
sum_range(series, lo, hi) ==
    IF lo > hi THEN Num(0)
    ELSE IF lo = hi THEN series[lo]
    ELSE LET mid == (lo + hi) \div 2
         IN  radd(sum_range(series, lo, mid), sum_range(series, mid + 1, hi))

\* data.tail(period).mean()
tail_mean(data, period) ==
    rdiv(sum_range(data, Len(data) - period + 1, Len(data)), Num(period))

\* the mean of the first `period` observations
calc_ma_head(data, period) ==
    IF Len(data) < period THEN None ELSE rdiv(sum_range(data, 1, period), Num(period))

calc_ma(data, period) ==
    IF Len(data) < period THEN None ELSE tail_mean(data, period)

\* a missing anchor price gives 0 instead of None
calc_monthly_return_zero_when_missing(data, months_back, reference_date) ==
    LET ref_prices == upto(data, reference_date)
        target == roll_year(Year(reference_date), Month(reference_date) - months_back)
        target_date == get_month_end_date(target[1], target[2])
        target_prices == upto(data, target_date)
    IN  IF Len(ref_prices) = 0 THEN Num(0)
        ELSE IF Len(target_prices) = 0 THEN Num(0)
        ELSE rmul(rsub(rdiv(iloc_last(ref_prices).v, iloc_last(target_prices).v), Num(1)),
                  Num(100))

calc_monthly_return(data, months_back, reference_date) ==
    LET ref_prices == upto(data, reference_date)
        target == roll_year(Year(reference_date), Month(reference_date) - months_back)
        target_date == get_month_end_date(target[1], target[2])
        target_prices == upto(data, target_date)
    IN  IF Len(ref_prices) = 0 THEN None
        ELSE IF Len(target_prices) = 0 THEN None
        ELSE rmul(rsub(rdiv(iloc_last(ref_prices).v, iloc_last(target_prices).v), Num(1)),
                  Num(100))

\* the for loop of calc_irx_compounded_return from month i on: the list of
\* monthly returns, or <<None>> as soon as a month has no rate
RECURSIVE irx_monthly_returns(_, _, _, _)
irx_monthly_returns(irx_data, months_back, reference_date, i) ==
    IF i >= months_back THEN <<>>
    ELSE LET target == roll_year(Year(reference_date), Month(reference_date) - i)
             month_end == get_month_end_date(target[1], target[2])
             month_data == upto(irx_data, month_end)
         IN  IF Len(month_data) = 0 THEN <<None>>
             ELSE LET rest == irx_monthly_returns(irx_data, months_back, reference_date, i + 1)
                  IN  IF rest = <<None>> THEN <<None>>
                      ELSE <<rdiv(rdiv(iloc_last(month_data).v, Num(100)), Num(12))>> \o rest

RECURSIVE compound(_, _)
compound(monthly_returns, i) ==
    IF i > Len(monthly_returns) THEN Num(1)
    ELSE rmul(radd(Num(1), monthly_returns[i]), compound(monthly_returns, i + 1))

\* the loop starts at the month before the reference month
calc_irx_compounded_return_from_previous_month(irx_data, months_back, reference_date) ==
    LET monthly_returns == irx_monthly_returns(irx_data, months_back + 1, reference_date, 1)
    IN  IF monthly_returns = <<None>> THEN None
        ELSE rmul(rsub(compound(monthly_returns, 1), Num(1)), Num(100))

calc_irx_compounded_return(irx_data, months_back, reference_date) ==
    LET monthly_returns == irx_monthly_returns(irx_data, months_back, reference_date, 0)
    IN  IF monthly_returns = <<None>> THEN None
        ELSE rmul(rsub(compound(monthly_returns, 1), Num(1)), Num(100))

\* ------------------------------------------- calculate_position_percentage
\* position_map, keyed by the score in half-points (10.0 is 20)
position_map_wrong_top == (20 :> 100) @@ (18 :> 100) @@ (16 :> 80) @@ (14 :> 60) @@ (12 :> 50) @@ (10 :> 40)

position_map == (20 :> 90) @@ (18 :> 100) @@ (16 :> 80) @@ (14 :> 60) @@ (12 :> 50) @@ (10 :> 40)

\* round(score * 2), the half-point count of rounded_score
rounded_half_up(score) == (2 * score + 50) \div 100

rounded_score(score) == round_half_even(2 * score, 100)

\* the branch  if rounded_score >= 9
clamp_never(rounded) == FALSE

clamp_high(rounded) == rounded >= 18

\* the branch  if rounded_score > 5: interpolation between int(rounded_score)
\* and the next integer when both are keys: <<value>> when the branch returns,
\* <<>> when control falls through to the next statement

interpolate_lower_only(rounded) ==
    LET lower == 2 * int_trunc(rounded, 2)
        upper == lower + 2
    IN  IF lower \in DOMAIN position_map /\ upper \in DOMAIN position_map
        THEN <<position_map[lower]>>
        ELSE <<>>

interpolate(rounded) ==
    LET lower == 2 * int_trunc(rounded, 2)
        upper == lower + 2
        weight2 == rounded - lower   \* weight, in halves
    IN  IF lower \in DOMAIN position_map /\ upper \in DOMAIN position_map
        THEN <<int_trunc(2 * position_map[lower]
                         + (position_map[upper] - position_map[lower]) * weight2, 2)>>
        ELSE <<>>

\* the branch  if rounded_score < 5:  int((rounded_score / 5.0) * 40)
proportional_of_50(rounded) == int_trunc(rounded * 50, 2 * 5)

proportional(rounded) == int_trunc(rounded * 40, 2 * 5)

calculate_position_percentage(score) ==
    LET rounded == rounded_score(score)
    IN  IF rounded \in DOMAIN position_map THEN position_map[rounded]
        ELSE IF clamp_high(rounded) THEN 100
        ELSE IF rounded > 10 /\ interpolate(rounded) # <<>> THEN interpolate(rounded)[1]
        ELSE IF rounded < 10 THEN proportional(rounded)
        ELSE 0

\* ---------------------------------------------------------- calculate_stage
\* float(x) raises TypeError on None
float_never_raises(x) == FALSE

float_raises(x) == x = None

stage_case1_weak(price, ma50, ma150, ma200) ==
    ~lt(price, ma50) /\ gt(ma50, ma150) /\ gt(ma150, ma200)

stage_case1(price, ma50, ma150, ma200) ==
    gt(price, ma50) /\ gt(ma50, ma150) /\ gt(ma150, ma200)

stage_case2(price, ma50, ma150, ma200) ==
    gt(price, ma50) /\ gt(ma50, ma150) /\ lt(ma150, ma200)

stage_case3(price, ma50, ma150, ma200) ==
    gt(price, ma50) /\ lt(ma50, ma150) /\ gt(ma150, ma200)

calculate_stage(price, ma50, ma150, ma200) ==
    IF float_raises(price) \/ float_raises(ma50) \/ float_raises(ma150) \/ float_raises(ma200)
    THEN <<"Error", 0>>
    ELSE IF stage_case1(price, ma50, ma150, ma200) THEN <<"S2", 100>>
    ELSE IF stage_case2(price, ma50, ma150, ma200) THEN <<"S1", 50>>
    ELSE IF stage_case3(price, ma50, ma150, ma200) THEN <<"S3 Strong", 50>>
    ELSE <<"Other", 0>>

\* ============================================================ the script
Tracks == {"spx", "ndx", "hsi"}

\* the options of the uptrend and market-pulse selectboxes
UptrendOptions == <<"Confirmed Uptrend", "Under Pressure/Correction", "Ambiguous Follow-through">>

PulseOptions == <<"Green - Acceleration", "Grey Strong - Accumulation",
                  "Grey Weak - Distribution", "Red - Deceleration">>

Range(seq) == {seq[i] : i \in DOMAIN seq}

\* sum(scores.values()) of a dict indicator1..indicatorN, kept as a sequence
RECURSIVE sum_values(_)
sum_values(scores) ==
    IF scores = <<>> THEN 0 ELSE scores[1] + sum_values(Tail(scores))

\* --------------------------------------------------- persisted user inputs
InputKeys == {"citi_value", "citi_prev", "r3fi_manual",
              "uptrend_status_spx", "uptrend_status_ndx", "uptrend_status_hsi",
              "market_pulse_spx", "market_pulse_ndx", "market_pulse_hsi"}

\* a dict over InputKeys: <<>> for a missing key, <<value>> for a present one
EmptyDict == [k \in InputKeys |-> <<>>]

NoFile == [exists |-> FALSE, data |-> EmptyDict]

\* load_user_inputs(): {} when the file does not exist
load_user_inputs(file) == IF file.exists THEN file.data ELSE EmptyDict

\* save_user_inputs(inputs): the file holds exactly the dict written
save_user_inputs(inputs) == [exists |-> TRUE, data |-> inputs]

\* saved_inputs.get(key, default)
dict_get(inputs, key, default) == IF inputs[key] = <<>> THEN default ELSE inputs[key][1]

\* (a write that starts from an empty dict: the other keys are lost)
dict_set_only_key(inputs, key, value) == [EmptyDict EXCEPT ![key] = <<value>>]

\* saved_inputs[key] = value
dict_set(inputs, key, value) == [inputs EXCEPT ![key] = <<value>>]

\* the script's  if w != st.session_state.k: ... save_user_inputs(saved_inputs)
\* for one widget: the dict after the statement
saved_after(inputs, key, value, session_value) ==
    IF value # session_value THEN dict_set(inputs, key, value) ELSE inputs

\* ------------------------------------------------------ series a fetch returns
\* the plain series first, first + step, ... of n observations
linear(n, first, step) == [i \in 1 .. n |-> Num(first + (i - 1) * step)]

\* n observations dated day `day` of consecutive months from (year, month) on,
\* the i-th holding value[i]
monthly(year, month, day, n, value) ==
    [i \in 1 .. n |->
        [t |-> Date(year + (month + i - 2) \div 12, ((month + i - 2) % 12) + 1, day),
         v |-> Num(value[i])]]

\* a plain series of three levels: a observations at x, then b at y, then c at
\* z, the last observation being `last`
steps(a, x, b, y, c, z, last) ==
    [i \in 1 .. (a + b + c) |->
        Num(IF i = a + b + c THEN last ELSE IF i <= a THEN x ELSE IF i <= a + b THEN y ELSE z)]

\* fetch_trend_data stores None for an index it could not download
NoneData == <<None>>

\* the dates on which the script is run (datetime.now())
Todays == {Date(2024, 3, 4), Date(2024, 3, 20)}

\* What the downloads can return is a catalogue of named data sets; the state
\* holds the name, the evaluators get the series.

\* fetch_liquidity_data(): (None, None, None, None) or four series.  BND is
\* monthly (interval='1mo', bars dated the 1st), IRX has one rate a month here.
LiquidityFeeds == {"failed", "bull", "bear", "short"}

liquidity_data ==
    [feed \in LiquidityFeeds |->
        IF feed = "bull"
        THEN \* bond fund up, bill rate 0, TIP and IBIT rising
             [ok |-> TRUE,
              bnd |-> monthly(2022, 3, 1, 25, [i \in 1 .. 25 |-> IF i <= 16 THEN 10 ELSE IF i <= 20 THEN 20 ELSE 40]),
              irx |-> monthly(2022, 3, 15, 25, [i \in 1 .. 25 |-> 0]),
              tip |-> linear(69, 100, 1),
              ibit |-> linear(69, 50, 1)]
        ELSE IF feed = "bear"
        THEN \* bond fund up less than the compounded bill rate, TIP and IBIT falling
             [ok |-> TRUE,
              bnd |-> monthly(2022, 3, 1, 25, [i \in 1 .. 25 |-> IF i <= 16 THEN 10 ELSE IF i <= 20 THEN 20 ELSE 40]),
              irx |-> monthly(2022, 3, 15, 25, [i \in 1 .. 25 |-> 1200]),
              tip |-> linear(69, 200, -1),
              ibit |-> linear(69, 150, -1)]
        ELSE IF feed = "short"
        THEN \* short histories: BND and IRX from July 2023, 10 TIP and 5 IBIT observations
             [ok |-> TRUE,
              bnd |-> monthly(2023, 7, 1, 9, [i \in 1 .. 9 |-> 10 + i]),
              irx |-> monthly(2023, 7, 15, 9, [i \in 1 .. 9 |-> 0]),
              tip |-> linear(10, 100, 1),
              ibit |-> linear(5, 50, 1)]
        ELSE [ok |-> FALSE, bnd |-> <<>>, irx |-> <<>>, tip |-> <<>>, ibit |-> <<>>]]

\* fetch_sentiment_data(): six Nones or six series.  xly / xlp (and the HK pair)
\* are given on the same days; the ratio series is their quotient day by day.
SentimentFeeds == {"failed", "risk_on", "risk_off"}

sentiment_data ==
    [feed \in SentimentFeeds |->
        IF feed = "risk_on"
        THEN \* US ratio and FFTY rising; HK ratio falling, 3067.HK rising
             [ok |-> TRUE,
              xly |-> linear(12, 40, 2), xlp |-> linear(12, 2, 0), ffty |-> linear(12, 30, 1),
              hk_3109 |-> linear(12, 60, -2), hk_3437 |-> linear(12, 2, 0), hk_3067 |-> linear(12, 10, 1)]
        ELSE IF feed = "risk_off"
        THEN \* US ratio and FFTY falling; HK series of 5 observations
             [ok |-> TRUE,
              xly |-> linear(12, 60, -2), xlp |-> linear(12, 2, 0), ffty |-> linear(12, 30, -1),
              hk_3109 |-> linear(5, 60, -2), hk_3437 |-> linear(5, 2, 0), hk_3067 |-> linear(5, 10, -1)]
        ELSE [ok |-> FALSE, xly |-> <<>>, xlp |-> <<>>, ffty |-> <<>>,
              hk_3109 |-> <<>>, hk_3437 |-> <<>>, hk_3067 |-> <<>>]]

\* fetch_trend_data(): {} or a dict with the three indices, each a series or None
TrendFeeds == {"failed", "staged", "weak"}

trend_data ==
    [feed \in TrendFeeds |->
        IF feed = "staged"
        THEN \* SPX in stage S2, NDX in S1, HSI in S3 Strong
             [ok |-> TRUE,
              data |-> [t \in Tracks |->
                          IF t = "spx" THEN linear(200, 100, 1)
                          ELSE IF t = "ndx" THEN steps(50, 1000, 100, 100, 50, 200, 300)
                          ELSE steps(50, 100, 100, 400, 50, 200, 500)]]
        ELSE IF feed = "weak"
        THEN \* SPX falling (Other), NDX with 150 observations, HSI not downloaded
             [ok |-> TRUE,
              data |-> [t \in Tracks |->
                          IF t = "spx" THEN linear(200, 400, -1)
                          ELSE IF t = "ndx" THEN linear(150, 100, 1)
                          ELSE NoneData]]
        ELSE [ok |-> FALSE, data |-> [t \in Tracks |-> NoneData]]]

\* a call of a function decorated @st.cache_data(ttl=3600): the cached value
\* while it is fresh, else a new download (time is not modelled: an entry may
\* have expired at any call); <<>> is the empty cache
fetch_results(cache, feeds) == (IF cache = <<>> THEN {} ELSE {cache[1]}) \cup feeds

\* ------------------------------------------------------ indicator evaluators
\* x3m * 0.33 + x6m * 0.33 + x11m * 0.34
weighted(x3m, x6m, x11m) ==
    radd(radd(rmul(x3m, rnorm(33, 100)), rmul(x6m, rnorm(33, 100))), rmul(x11m, rnorm(34, 100)))

\* lines 447-451 and the except at 463-465: the score from the six horizon
\* returns; None * 0.33 raises, the except gives 0
indicator1_score_at_least(bnd_3m, bnd_6m, bnd_11m, irx_3m, irx_6m, irx_11m) ==
    IF None \in {bnd_3m, bnd_6m, bnd_11m, irx_3m, irx_6m, irx_11m} THEN 0
    ELSE IF ~lt(weighted(bnd_3m, bnd_6m, bnd_11m), weighted(irx_3m, irx_6m, irx_11m))
         THEN 100 ELSE 0

indicator1_score(bnd_3m, bnd_6m, bnd_11m, irx_3m, irx_6m, irx_11m) ==
    IF None \in {bnd_3m, bnd_6m, bnd_11m, irx_3m, irx_6m, irx_11m} THEN 0
    ELSE IF gt(weighted(bnd_3m, bnd_6m, bnd_11m), weighted(irx_3m, irx_6m, irx_11m))
         THEN 100 ELSE 0

\* lines 439-445: the six horizon returns <<bnd 3m, 6m, 11m, irx 3m, 6m, 11m>>
horizon_returns(bnd_data, irx_data, latest_month_end) ==
    << calc_monthly_return(bnd_data, 3, latest_month_end),
       calc_monthly_return(bnd_data, 6, latest_month_end),
       calc_monthly_return(bnd_data, 11, latest_month_end),
       calc_irx_compounded_return(irx_data, 3, latest_month_end),
       calc_irx_compounded_return(irx_data, 6, latest_month_end),
       calc_irx_compounded_return(irx_data, 11, latest_month_end) >>

\* tab 1, indicator 1: BND vs IRX
indicator1_liq(bnd_data, irx_data, latest_month_end) ==
    LET r == horizon_returns(bnd_data, irx_data, latest_month_end)
    IN  indicator1_score(r[1], r[2], r[3], r[4], r[5], r[6])

\* float(ma) if ma is not None else 0
ma_or_zero(ma) == IF ma # None THEN ma ELSE Num(0)

\* the moving-average cross of tabs 1 and 2: 1 if short MA > long MA else 0
ma_cross(data, short_period, long_period) ==
    IF gt(ma_or_zero(calc_ma(data, short_period)), ma_or_zero(calc_ma(data, long_period)))
    THEN 100 ELSE 0

\* xly_data / xlp_data, both given on the same days
ratio(num_data, den_data) ==
    [i \in 1 .. (IF Len(num_data) <= Len(den_data) THEN Len(num_data) ELSE Len(den_data)) |->
        rdiv(num_data[i], den_data[i])]

\* tab 1 when the fetch succeeded: scores_liq
\* lines 433-519 once the six horizon returns r are computed: scores_liq
scores_liq_from(r, tip_data, ibit_data) ==
    << indicator1_score(r[1], r[2], r[3], r[4], r[5], r[6]),
       ma_cross(tip_data, 5, 20),
       ma_cross(ibit_data, 3, 8) >>

liquidity_scores(liq, now) ==
    LET latest_month_end == get_latest_month_end(now)
    IN  scores_liq_from(horizon_returns(liq.bnd, liq.irx, latest_month_end), liq.tip, liq.ibit)

\* tab 2, indicator 1: Citi surprise index
\* (the change is divided by the prior value itself, not by its magnitude)
indicator1_sent_signed_prior(value, prev) ==
    LET score_above_zero == IF value > 0 THEN 50 ELSE 0
        citi_mom == IF prev # 0
                    THEN rmul(rdiv(Num(value - prev), Num(prev)), Num(100))
                    ELSE Num(0)
        score_mom_positive == IF gt(citi_mom, Num(0)) THEN 50 ELSE 0
    IN  score_above_zero + score_mom_positive

indicator1_sent(value, prev) ==
    LET score_above_zero == IF value > 0 THEN 50 ELSE 0
        citi_mom == IF prev # 0
                    THEN rmul(rdiv(Num(value - prev), Num(absval(prev))), Num(100))
                    ELSE Num(0)
        score_mom_positive == IF gt(citi_mom, Num(0)) THEN 50 ELSE 0
    IN  score_above_zero + score_mom_positive

\* tab 2, indicator 2: Russell 3000 breadth
indicator2_sent(r3fi) == IF r3fi > 50 THEN 100 ELSE 0

\* tab 2, indicators 3 and 4 of the US tracks and of HSI: <<indicator3, indicator4>>
sentiment_cross_us(sent) ==
    << IF sent.ok THEN ma_cross(ratio(sent.xly, sent.xlp), 3, 8) ELSE 0,
       IF sent.ok THEN ma_cross(sent.ffty, 3, 8) ELSE 0 >>

sentiment_cross_hsi(sent) ==
    << IF sent.ok THEN ma_cross(ratio(sent.hk_3109, sent.hk_3437), 3, 8) ELSE 0,
       IF sent.ok THEN ma_cross(sent.hk_3067, 3, 8) ELSE 0 >>

\* tab 2: the dict scores_sent_us (or scores_sent_hsi), cross being its indicators 3 and 4
sentiment_scores(value, prev, r3fi, cross) ==
    <<indicator1_sent(value, prev), indicator2_sent(r3fi)>> \o cross

\* tab 3, indicator 1: uptrend confirmation
uptrend_score(status) ==
    IF status = "Confirmed Uptrend" THEN 100
    ELSE IF status = "Ambiguous Follow-through" THEN 50
    ELSE 0

\* tab 3, indicator 2: <<label shown, score>> of one index
stage_indicator(index_data, idx_key) ==
    IF index_data.ok
    THEN LET data == index_data.data[idx_key]
         IN  IF data # NoneData /\ Len(data) >= 200
             THEN LET current_price == iloc_last(data)
                      ma_50 == calc_ma(data, 50)
                      ma_150 == calc_ma(data, 150)
                      ma_200 == calc_ma(data, 200)
                  IN  IF ma_50 = None \/ ma_150 = None \/ ma_200 = None
                      THEN <<"Error", 0>>
                      ELSE calculate_stage(current_price, ma_50, ma_150, ma_200)
             ELSE <<"No Data", 0>>
    ELSE <<"Error", 0>>

\* tab 3, indicator 3: market pulse
pulse_score(pulse) ==
    IF pulse = "Green - Acceleration" THEN 100
    ELSE IF pulse = "Grey Strong - Accumulation" THEN 50
    ELSE 0

\* tab 3: scores_trend_<track>, stage being the index's <<label, score>>
trend_scores(status, stage, pulse) ==
    << uptrend_score(status), stage[2], pulse_score(pulse) >>

\* st.session_state.total_score_liq = sum(scores_liq.values()): the new value
\* overwrites the stored one
liq_total_accumulated(stored, scores) == stored + sum_values(scores)

liq_total(stored, scores) == sum_values(scores)

\* st.session_state.total_score_<track> = total_score_liq + score_sent_<track> + total_trend
grand_total_without_liq(liq, sent, trend) == sent + trend

grand_total(liq, sent, trend) == liq + sent + trend

\* ------------------------------------- the evaluators on the catalogue
\* (each is the operator above applied to the named data set)
liquidity_scores_of ==
    [feed \in LiquidityFeeds, now \in Todays |->
        IF liquidity_data[feed].ok THEN liquidity_scores(liquidity_data[feed], now) ELSE <<>>]

sentiment_cross_us_of == [feed \in SentimentFeeds |-> sentiment_cross_us(sentiment_data[feed])]

sentiment_cross_hsi_of == [feed \in SentimentFeeds |-> sentiment_cross_hsi(sentiment_data[feed])]

stage_indicator_of ==
    [feed \in TrendFeeds, idx_key \in Tracks |-> stage_indicator(trend_data[feed], idx_key)]

\* ------------------------------------------------------------- the session
\* values a user may type into the number inputs
CitiValueChoices == {0, 5}

CitiPrevChoices == {-5, 0, 5}

R3fiChoices == {50, 60}

UptrendKey == [t \in Tracks |->
    IF t = "spx" THEN "uptrend_status_spx" ELSE IF t = "ndx" THEN "uptrend_status_ndx" ELSE "uptrend_status_hsi"]

PulseKey == [t \in Tracks |->
    IF t = "spx" THEN "market_pulse_spx" ELSE IF t = "ndx" THEN "market_pulse_ndx" ELSE "market_pulse_hsi"]

\* the manual inputs held in st.session_state
session_manual ==
    [citi_value |-> citi_value, citi_prev |-> citi_prev, r3fi_manual |-> r3fi_manual,
     uptrend_status |-> uptrend_status, market_pulse |-> market_pulse]

\* lines 304-324: the manual inputs of a new session, from saved_inputs or the defaults
initial_manual(inputs) ==
    [citi_value |-> dict_get(inputs, "citi_value", 0),
     citi_prev |-> dict_get(inputs, "citi_prev", 0),
     r3fi_manual |-> dict_get(inputs, "r3fi_manual", 50),
     uptrend_status |-> [t \in Tracks |-> dict_get(inputs, UptrendKey[t], "Under Pressure/Correction")],
     market_pulse |-> [t \in Tracks |-> dict_get(inputs, PulseKey[t], "Red - Deceleration")]]

\* the widget values after the user changed exactly one input widget
EditsOf(m) ==
    {[m EXCEPT !.citi_value = v] : v \in CitiValueChoices \ {m.citi_value}}
    \cup {[m EXCEPT !.citi_prev = v] : v \in CitiPrevChoices \ {m.citi_prev}}
    \cup {[m EXCEPT !.r3fi_manual = v] : v \in R3fiChoices \ {m.r3fi_manual}}
    \cup UNION {{[m EXCEPT !.uptrend_status[t] = o] : o \in Range(UptrendOptions) \ {m.uptrend_status[t]}} : t \in Tracks}
    \cup UNION {{[m EXCEPT !.market_pulse[t] = o] : o \in Range(PulseOptions) \ {m.market_pulse[t]}} : t \in Tracks}

\* the widget values of a run that `kind` started: only an edit changes them
WidgetValues(kind) == IF kind = "edit" THEN EditsOf(session_manual) ELSE {session_manual}

\* lines 353-401: the overall summary of one track, from st.session_state
\* (a summary that never leaves its initial figures)
summary_of_blank(total, liq, sent, trend) ==
    [total |-> 0, position_pct |-> 0, liq |-> 0, sent |-> 0, trend |-> 0]

summary_of(total, liq, sent, trend) ==
    [total |-> total, position_pct |-> calculate_position_percentage(total),
     liq |-> liq, sent |-> sent, trend |-> trend]

ZeroScores == [t \in Tracks |-> 0]

NoLabels == [t \in Tracks |-> ""]

InitApp ==
    /\ pc = "idle"
    /\ runs = 0
    /\ session_live = FALSE
    /\ citi_value = 0
    /\ citi_prev = 0
    /\ r3fi_manual = 50
    /\ uptrend_status = [t \in Tracks |-> "Under Pressure/Correction"]
    /\ market_pulse = [t \in Tracks |-> "Red - Deceleration"]
    /\ total_score_liq = 0
    /\ total_score = ZeroScores
    /\ score_sent = ZeroScores
    /\ score_trend = ZeroScores
    /\ user_inputs_file = NoFile
    /\ saved_inputs = EmptyDict
    /\ widget = initial_manual(EmptyDict)
    /\ summary = [t \in Tracks |-> summary_of(0, 0, 0, 0)]
    /\ cache_liq = <<>>
    /\ cache_sent = <<>>
    /\ cache_trend = <<>>
    /\ scores_liq = <<>>
    /\ scores_sent_us = <<>>
    /\ scores_sent_hsi = <<>>
    /\ scores_trend = [t \in Tracks |-> <<>>]
    /\ stage_shown = NoLabels

\* A script run from its first line to the tabs (lines 35-417).  kind is what
\* started it: "new" a new browser session, "edit" a changed input widget (w
\* holds the widget values), "calc" / "clear" a click on one of the two
\* buttons, "plain" a rerun with nothing changed (also the run st.rerun() starts).
StartRun(kind, w) ==
    /\ pc \in {"idle", "rerun"}
    /\ runs < MaxRuns
    /\ pc = "rerun" => kind = "plain"
    /\ ~session_live => kind = "new"
    /\ w \in WidgetValues(kind)
    /\ LET loaded == load_user_inputs(user_inputs_file)
           fresh == kind = "new"
           man == IF fresh THEN initial_manual(loaded) ELSE session_manual
           liq == IF fresh THEN 0 ELSE total_score_liq
           tot == IF fresh THEN ZeroScores ELSE total_score
           sent == IF fresh THEN ZeroScores ELSE score_sent
           trend == IF fresh THEN ZeroScores ELSE score_trend
       IN  /\ saved_inputs' = loaded
           /\ citi_value' = man.citi_value
           /\ citi_prev' = man.citi_prev
           /\ r3fi_manual' = man.r3fi_manual
           /\ uptrend_status' = man.uptrend_status
           /\ market_pulse' = man.market_pulse
           /\ total_score_liq' = liq
           /\ total_score' = tot
           /\ score_sent' = sent
           /\ score_trend' = trend
           /\ summary' = [t \in Tracks |-> summary_of(tot[t], liq, sent[t], trend[t])]
           /\ widget' = IF kind = "edit" THEN w ELSE man
    /\ IF kind = "calc"
       THEN \* st.cache_data.clear(); st.rerun()
            /\ cache_liq' = <<>>
            /\ cache_sent' = <<>>
            /\ cache_trend' = <<>>
            /\ pc' = "rerun"
       ELSE /\ UNCHANGED cachevars
            /\ pc' = "tab1"
    /\ user_inputs_file' = IF kind = "clear" THEN NoFile ELSE user_inputs_file
    /\ runs' = runs + 1
    /\ session_live' = TRUE
    /\ scores_liq' = <<>>
    /\ scores_sent_us' = <<>>
    /\ scores_sent_hsi' = <<>>
    /\ scores_trend' = [t \in Tracks |-> <<>>]
    /\ stage_shown' = NoLabels
    /\ UNCHANGED purevars

\* Tab 1 (lines 423-526): fetch_liquidity_data() returned the data set `feed`
\* and datetime.now() the date `now`
Tab1(feed, now) ==
    /\ pc = "tab1"
    /\ feed \in fetch_results(cache_liq, LiquidityFeeds)
    /\ now \in Todays
    /\ cache_liq' = <<feed>>
    /\ IF liquidity_data[feed].ok
       THEN /\ scores_liq' = liquidity_scores_of[feed, now]
            /\ total_score_liq' = liq_total(total_score_liq, scores_liq')
       ELSE UNCHANGED <<scores_liq, total_score_liq>>
    /\ pc' = "tab2"
    /\ UNCHANGED <<runs, session_live, manualvars, total_score, score_sent, score_trend,
                   user_inputs_file, cache_sent, cache_trend, saved_inputs, widget, summary,
                   scores_sent_us, scores_sent_hsi, scores_trend, stage_shown, purevars>>

\* Tab 2 (lines 529-761): fetch_sentiment_data() returned the data set `feed`
Tab2(feed) ==
    /\ pc = "tab2"
    /\ feed \in fetch_results(cache_sent, SentimentFeeds)
    /\ cache_sent' = <<feed>>
    /\ LET s1 == saved_after(saved_inputs, "citi_value", widget.citi_value, citi_value)
           s2 == saved_after(s1, "citi_prev", widget.citi_prev, citi_prev)
           s3 == saved_after(s2, "r3fi_manual", widget.r3fi_manual, r3fi_manual)
           changed == \/ widget.citi_value # citi_value
                      \/ widget.citi_prev # citi_prev
                      \/ widget.r3fi_manual # r3fi_manual
       IN  /\ saved_inputs' = s3
           /\ user_inputs_file' = IF changed THEN save_user_inputs(s3) ELSE user_inputs_file
    /\ citi_value' = widget.citi_value
    /\ citi_prev' = widget.citi_prev
    /\ r3fi_manual' = widget.r3fi_manual
    /\ scores_sent_us' = sentiment_scores(widget.citi_value, widget.citi_prev, widget.r3fi_manual,
                                          sentiment_cross_us_of[feed])
    /\ scores_sent_hsi' = sentiment_scores(widget.citi_value, widget.citi_prev, widget.r3fi_manual,
                                           sentiment_cross_hsi_of[feed])
    /\ score_sent' = [t \in Tracks |->
                        IF t = "hsi" THEN sum_values(scores_sent_hsi') ELSE sum_values(scores_sent_us')]
    /\ pc' = "tab3"
    /\ UNCHANGED <<runs, session_live, uptrend_status, market_pulse, total_score_liq,
                   total_score, score_trend, cache_liq, cache_trend, widget, summary,
                   scores_liq, scores_trend, stage_shown, purevars>>

\* saved_inputs after the selectboxes of `keys` were compared with the session, in
\* the order spx, ndx, hsi
saved_after_tracks(inputs, keys, values, session_values) ==
    saved_after(saved_after(saved_after(inputs, keys["spx"], values["spx"], session_values["spx"]),
                            keys["ndx"], values["ndx"], session_values["ndx"]),
                keys["hsi"], values["hsi"], session_values["hsi"])

\* Tab 3 (lines 764-1046): fetch_trend_data() returned the data set `feed`
Tab3(feed) ==
    /\ pc = "tab3"
    /\ feed \in fetch_results(cache_trend, TrendFeeds)
    /\ cache_trend' = <<feed>>
    /\ LET s1 == saved_after_tracks(saved_inputs, UptrendKey, widget.uptrend_status, uptrend_status)
           s2 == saved_after_tracks(s1, PulseKey, widget.market_pulse, market_pulse)
           changed == widget.uptrend_status # uptrend_status \/ widget.market_pulse # market_pulse
       IN  /\ saved_inputs' = s2
           /\ user_inputs_file' = IF changed THEN save_user_inputs(s2) ELSE user_inputs_file
    /\ uptrend_status' = widget.uptrend_status
    /\ market_pulse' = widget.market_pulse
    /\ scores_trend' = [t \in Tracks |->
                          trend_scores(widget.uptrend_status[t], stage_indicator_of[feed, t],
                                       widget.market_pulse[t])]
    /\ stage_shown' = [t \in Tracks |-> stage_indicator_of[feed, t][1]]
    /\ score_trend' = [t \in Tracks |-> sum_values(scores_trend'[t])]
    /\ total_score' = [t \in Tracks |->
                         grand_total(total_score_liq, score_sent[t], sum_values(scores_trend'[t]))]
    /\ pc' = "idle"
    /\ UNCHANGED <<runs, session_live, citi_value, citi_prev, r3fi_manual, total_score_liq,
                   score_sent, cache_liq, cache_sent, widget, summary, scores_liq,
                   scores_sent_us, scores_sent_hsi, purevars>>

RunKinds == {"new", "edit", "calc", "clear", "plain"}

Init ==
    /\ InitApp
    /\ score_arg = 0
    /\ position_result = <<>>
    /\ stage_args = <<None, None, None, None>>
    /\ stage_result = <<"", -1>>
    /\ fn_args = <<>>
    /\ fn_result = <<>>

Next ==
    \/ \E kind \in RunKinds : \E w \in WidgetValues(kind) : StartRun(kind, w)
    \/ \E feed \in LiquidityFeeds, now \in Todays : Tab1(feed, now)
    \/ \E feed \in SentimentFeeds : Tab2(feed)
    \/ \E feed \in TrendFeeds : Tab3(feed)

Spec == Init /\ [][Next]_vars

\* ------------------------------------------------ calls of the pure functions
\* position_result is <<>> before the call and <<value>> after it
NoCall == <<>>

NoStage == <<"", -1>>

ScoreArgs == 0 .. MaxScoreArg

\* prices and moving averages tried for calculate_stage, None among them
StageValues == {None, Num(100), Num(105), Num(108), Num(110)}

InitPosition ==
    /\ score_arg \in ScoreArgs
    /\ position_result = NoCall
    /\ stage_args = <<None, None, None, None>>
    /\ stage_result = NoStage
    /\ fn_args = NoCall
    /\ fn_result = NoCall
    /\ InitApp

CallPosition ==
    /\ position_result = NoCall
    /\ position_result' = <<calculate_position_percentage(score_arg)>>
    /\ UNCHANGED <<score_arg, stage_args, stage_result, helpervars, appvars>>

NextPosition == CallPosition

SpecPosition == InitPosition /\ [][NextPosition]_vars

InitStage ==
    /\ stage_args \in StageValues \X StageValues \X StageValues \X StageValues
    /\ stage_result = NoStage
    /\ score_arg = 0
    /\ position_result = NoCall
    /\ fn_args = NoCall
    /\ fn_result = NoCall
    /\ InitApp

CallStage ==
    /\ stage_result = NoStage
    /\ stage_result' = calculate_stage(stage_args[1], stage_args[2], stage_args[3], stage_args[4])
    /\ UNCHANGED <<stage_args, score_arg, position_result, helpervars, appvars>>

NextStage == CallStage

SpecStage == InitStage /\ [][NextStage]_vars

\* calls of calculate_stage and of the stage block of tab 3 (lines 878-929) on
\* one index: the dict fetch_trend_data returned ({} when ok is FALSE) holds
\* `series` under idx_key
StageSeries == {NoneData, linear(150, 100, 1), linear(199, 100, 1), linear(200, 100, 1),
                linear(200, 400, -1)}

index_data_of(a) ==
    [ok |-> a.ok, data |-> [t \in Tracks |-> IF t = a.idx_key THEN a.series ELSE NoneData]]

InitStageIndicator ==
    /\ \/ /\ stage_args \in StageValues \X StageValues \X StageValues \X StageValues
          /\ fn_args = [ok |-> TRUE, series |-> linear(199, 100, 1), idx_key |-> "spx"]
       \/ /\ stage_args = <<None, None, None, None>>
          /\ fn_args \in [ok : BOOLEAN, series : StageSeries, idx_key : Tracks]
    /\ stage_result = NoStage
    /\ fn_result = NoCall
    /\ score_arg = 0
    /\ position_result = NoCall
    /\ InitApp

CallStageIndicator ==
    /\ fn_result = NoCall
    /\ fn_result' = <<stage_indicator(index_data_of(fn_args), fn_args.idx_key)>>
    /\ UNCHANGED <<fn_args, stage_args, stage_result, score_arg, position_result, appvars>>

NextStageIndicator == CallStage \/ CallStageIndicator

SpecStageIndicator == InitStageIndicator /\ [][NextStageIndicator]_vars

\* ---------------------------------------------- calls of get_latest_month_end
\* fn_args is <<today>>, the date datetime.now() gives; fn_result is
\* <<month end returned, day of the call>> for the latest call
FirstDay == Date(2023, 12, 1)

\* the calendar day after `date`
next_day(date) ==
    IF Day(date) < monthrange_days(Year(date), Month(date)) THEN date + 1
    ELSE IF Month(date) < 12 THEN Date(Year(date), Month(date) + 1, 1)
    ELSE Date(Year(date) + 1, 1, 1)

InitMonthEnd ==
    /\ fn_args = <<FirstDay>>
    /\ fn_result = NoCall
    /\ score_arg = 0
    /\ position_result = NoCall
    /\ stage_args = <<None, None, None, None>>
    /\ stage_result = NoStage
    /\ InitApp

CallMonthEnd ==
    /\ fn_result' = <<get_latest_month_end(fn_args[1]), fn_args[1]>>
    /\ UNCHANGED <<fn_args, score_arg, position_result, stage_args, stage_result, appvars>>

AdvanceDay ==
    /\ Year(next_day(fn_args[1])) <= MaxYear
    /\ fn_args' = <<next_day(fn_args[1])>>
    /\ UNCHANGED <<fn_result, score_arg, position_result, stage_args, stage_result, appvars>>

NextMonthEnd == CallMonthEnd \/ AdvanceDay

SpecMonthEnd == InitMonthEnd /\ [][NextMonthEnd]_vars

\* ------------------ calls of calc_monthly_return and calc_irx_compounded_return
\* The series passed is dated: it holds an observation on each date of
\* ReturnDates that pick maps to a value other than 0.  fn_args is
\* [pick, months_back, reference_date], fn_result <<function called, value>>.
ReturnDates == <<Date(2022, 12, 30), Date(2023, 1, 31), Date(2023, 2, 1),
                 Date(2023, 11, 30), Date(2024, 2, 15)>>

ReturnValues == {600, 1200}

series_of(pick) ==
    SelectSeq([i \in DOMAIN ReturnDates |-> [t |-> ReturnDates[i], v |-> Num(pick[i])]],
              LAMBDA e : e.v # Num(0))

MonthsBackArgs == {1, 3, 13}

ReferenceDates == {Date(2023, 1, 31), Date(2023, 2, 15), Date(2024, 2, 29)}

InitReturns ==
    /\ fn_args \in [pick : [DOMAIN ReturnDates -> ReturnValues \cup {0}],
                    months_back : MonthsBackArgs, reference_date : ReferenceDates]
    /\ fn_result = NoCall
    /\ score_arg = 0
    /\ position_result = NoCall
    /\ stage_args = <<None, None, None, None>>
    /\ stage_result = NoStage
    /\ InitApp

CallMonthlyReturn ==
    /\ fn_result = NoCall
    /\ fn_result' = <<"calc_monthly_return",
                      calc_monthly_return(series_of(fn_args.pick), fn_args.months_back,
                                          fn_args.reference_date)>>
    /\ UNCHANGED <<fn_args, score_arg, position_result, stage_args, stage_result, appvars>>

CallIrxCompoundedReturn ==
    /\ fn_result = NoCall
    /\ fn_result' = <<"calc_irx_compounded_return",
                      calc_irx_compounded_return(series_of(fn_args.pick), fn_args.months_back,
                                                 fn_args.reference_date)>>
    /\ UNCHANGED <<fn_args, score_arg, position_result, stage_args, stage_result, appvars>>

NextReturns == CallMonthlyReturn \/ CallIrxCompoundedReturn

SpecReturns == InitReturns /\ [][NextReturns]_vars

\* ------------------------------ tab 1 from the six horizon returns onwards
\* fn_args is [returns, feed]: the returns calc_monthly_return and
\* calc_irx_compounded_return gave, and the data set whose TIP and IBIT
\* series are used; fn_result is <<scores_liq>>
HorizonReturns == {None, Num(0), Num(1), Num(3)}

InitIndicators ==
    /\ fn_args \in [returns : HorizonReturns \X HorizonReturns \X HorizonReturns
                              \X HorizonReturns \X HorizonReturns \X HorizonReturns,
                    feed : {f \in LiquidityFeeds : liquidity_data[f].ok}]
    /\ fn_result = NoCall
    /\ score_arg = 0
    /\ position_result = NoCall
    /\ stage_args = <<None, None, None, None>>
    /\ stage_result = NoStage
    /\ InitApp

CallIndicators ==
    /\ fn_result = NoCall
    /\ fn_result' = <<scores_liq_from(fn_args.returns, liquidity_data[fn_args.feed].tip,
                                      liquidity_data[fn_args.feed].ibit)>>
    /\ UNCHANGED <<fn_args, score_arg, position_result, stage_args, stage_result, appvars>>

NextIndicators == CallIndicators

SpecIndicators == InitIndicators /\ [][NextIndicators]_vars

\* ------------------------------------- tab 2, indicator 1 on typed values
\* fn_args is <<citi_value, citi_prev>>, fn_result <<indicator1_sent>>
CitiArgs == (-MaxCiti) .. MaxCiti

InitSurprise ==
    /\ fn_args \in CitiArgs \X CitiArgs
    /\ fn_result = NoCall
    /\ score_arg = 0
    /\ position_result = NoCall
    /\ stage_args = <<None, None, None, None>>
    /\ stage_result = NoStage
    /\ InitApp

CallSurprise ==
    /\ fn_result = NoCall
    /\ fn_result' = <<indicator1_sent(fn_args[1], fn_args[2])>>
    /\ UNCHANGED <<fn_args, score_arg, position_result, stage_args, stage_result, appvars>>

NextSurprise == CallSurprise

SpecSurprise == InitSurprise /\ [][NextSurprise]_vars

\* ------------------------------------------------------- calls of calc_ma
\* fn_args is [data, period], data a sequence of whole prices; fn_result <<ma>>
MaValues == 10 .. 14

MaSeries == UNION {[1 .. k -> MaValues] : k \in 0 .. MaxLen}

InitMa ==
    /\ fn_args \in [data : MaSeries, period : 1 .. (MaxLen + 1)]
    /\ fn_result = NoCall
    /\ score_arg = 0
    /\ position_result = NoCall
    /\ stage_args = <<None, None, None, None>>
    /\ stage_result = NoStage
    /\ InitApp

CallMa ==
    /\ fn_result = NoCall
    /\ fn_result' = <<calc_ma([i \in DOMAIN fn_args.data |-> Num(fn_args.data[i])],
                              fn_args.period)>>
    /\ UNCHANGED <<fn_args, score_arg, position_result, stage_args, stage_result, appvars>>

NextMa == CallMa

SpecMa == InitMa /\ [][NextMa]_vars

\* ------------------------------------- the script over a file of earlier visits
\* user_inputs.json as earlier visits can have left it: absent, or holding the
\* inputs those visits changed
PersistedFiles ==
    {NoFile,
     save_user_inputs(dict_set(EmptyDict, "citi_value", 5)),
     save_user_inputs(dict_set(dict_set(EmptyDict, "citi_prev", -5), "r3fi_manual", 60)),
     save_user_inputs(dict_set(dict_set(dict_set(EmptyDict, "citi_value", 5),
                                        "uptrend_status_spx", "Confirmed Uptrend"),
                               "market_pulse_hsi", "Green - Acceleration"))}

\* the downloads of these runs
PersistLiquidityFeeds == {"failed", "bull"}

PersistSentimentFeeds == {"risk_on"}

PersistTrendFeeds == {"staged"}

PersistToday == Date(2024, 3, 20)

InitPersist ==
    /\ pc = "idle"
    /\ runs = 0
    /\ session_live = FALSE
    /\ citi_value = 0
    /\ citi_prev = 0
    /\ r3fi_manual = 50
    /\ uptrend_status = [t \in Tracks |-> "Under Pressure/Correction"]
    /\ market_pulse = [t \in Tracks |-> "Red - Deceleration"]
    /\ total_score_liq = 0
    /\ total_score = ZeroScores
    /\ score_sent = ZeroScores
    /\ score_trend = ZeroScores
    /\ user_inputs_file \in PersistedFiles
    /\ saved_inputs = EmptyDict
    /\ widget = initial_manual(EmptyDict)
    /\ summary = [t \in Tracks |-> summary_of(0, 0, 0, 0)]
    /\ cache_liq = <<>>
    /\ cache_sent = <<>>
    /\ cache_trend = <<>>
    /\ scores_liq = <<>>
    /\ scores_sent_us = <<>>
    /\ scores_sent_hsi = <<>>
    /\ scores_trend = [t \in Tracks |-> <<>>]
    /\ stage_shown = NoLabels
    /\ score_arg = 0
    /\ position_result = NoCall
    /\ stage_args = <<None, None, None, None>>
    /\ stage_result = NoStage
    /\ fn_args = <<>>
    /\ fn_result = NoCall

NextPersist ==
    \/ \E kind \in RunKinds : \E w \in WidgetValues(kind) : StartRun(kind, w)
    \/ \E feed \in PersistLiquidityFeeds : Tab1(feed, PersistToday)
    \/ \E feed \in PersistSentimentFeeds : Tab2(feed)
    \/ \E feed \in PersistTrendFeeds : Tab3(feed)

SpecPersist == InitPersist /\ [][NextPersist]_vars

\* ================================================================= claims
\* the half-point nearest to a score in hundredths, a tie going to the even
\* half-point count (stated independently of rounded_score)
Dist(a, b) == IF a >= b THEN a - b ELSE b - a

NearestHalf(s) ==
    CHOOSE h \in 0 .. (2 * MaxScoreArg) \div 100 + 1 :
        \/ Dist(2 * s, 100 * h) < 50
        \/ Dist(2 * s, 100 * h) = 50 /\ h % 2 = 0

\* the anchor table of the specification, by whole score
AnchorValue == (5 :> 40) @@ (6 :> 50) @@ (7 :> 60) @@ (8 :> 80) @@ (9 :> 100) @@ (10 :> 90)

\* C1: whenever the half-point-quantized score equals an anchor 5..10 the
\* function returns that anchor's value (5->40, 6->50, 7->60, 8->80, 9->100,
\* 10->90); an exact 9.0 returns 100 and an exact 10.0 returns the lower 90.
C1_AnchorsReturned ==
    position_result # NoCall =>
        /\ \A a \in DOMAIN AnchorValue :
              NearestHalf(score_arg) = 2 * a => position_result[1] = AnchorValue[a]
        /\ score_arg = 900 => position_result[1] = 100
        /\ score_arg = 1000 => position_result[1] = 90

C1_Witness == score_arg = 1000 /\ position_result = <<90>>

\* C2: a score whose quantization q is 5.5, 6.5, 7.5 or 8.5 returns the linear
\* interpolation anchor(floor q) + (anchor(floor q + 1) - anchor(floor q)) * 0.5,
\* that is 45, 55, 70, 90; the score 6.3 returns 55.
C2_Interpolated ==
    position_result # NoCall =>
        /\ \A lo \in {5, 6, 7, 8} :
              NearestHalf(score_arg) = 2 * lo + 1 =>
                  /\ 2 * position_result[1] = 2 * AnchorValue[lo] + (AnchorValue[lo + 1] - AnchorValue[lo])
                  /\ position_result[1] = ((5 :> 45) @@ (6 :> 55) @@ (7 :> 70) @@ (8 :> 90))[lo]
        /\ score_arg = 630 => position_result[1] = 55

C2_Witness == score_arg = 630 /\ position_result = <<55>>

C4_RawProportional ==
    position_result # NoCall /\ score_arg < 500 =>
        /\ position_result[1] = int_trunc(score_arg * 40, 5 * 100)
        /\ position_result[1] < 40

\* C4 amended: every score whose half-point quantization q is below 5 returns
\* (q/5)*40 = 8q, so 0 maps to 0 and the result is at most 36, below the 40
\* of score 5.
C4_QuantizedProportional ==
    position_result # NoCall /\ NearestHalf(score_arg) < 10 =>
        /\ position_result[1] = 4 * NearestHalf(score_arg)
        /\ position_result[1] < 40
        /\ score_arg = 0 => position_result[1] = 0

C4_Witness == score_arg = 430 /\ position_result = <<36>>

\* C5: the result depends on the score only through its quantization to the
\* nearest 0.5: the raw score and its quantized value give the same result
\* (hence so do any two scores with the same quantization), and 7.24 and 7.1
\* both return 60.
C5_QuantizationOnly ==
    position_result # NoCall =>
        /\ position_result[1] = calculate_position_percentage(50 * NearestHalf(score_arg))
        /\ score_arg \in {724, 710} => position_result[1] = 60

C5_Witness == score_arg = 724 /\ position_result = <<60>>

\* C6: on defined numbers calculate_stage returns exactly one of the four
\* states, chosen by strict comparisons: S2 (1.0) iff price > MA50 > MA150 >
\* MA200, S1 (0.5) iff price > MA50 > MA150 and MA150 < MA200, S3 Strong (0.5)
\* iff price > MA50 and MA50 < MA150 and MA150 > MA200, Other (0.0) otherwise;
\* a tie in a compared pair gives Other; (110, 105, 108, 100) is S3 Strong, 0.5.
C6_StageTotalExclusive ==
    (stage_result # NoStage /\ \A i \in 1 .. 4 : stage_args[i] # None) =>
        LET p == stage_args[1].n
            a == stage_args[2].n
            b == stage_args[3].n
            c == stage_args[4].n
            c1 == p > a /\ a > b /\ b > c
            c2 == p > a /\ a > b /\ b < c
            c3 == p > a /\ a < b /\ b > c
        IN  /\ stage_result \in {<<"S2", 100>>, <<"S1", 50>>, <<"S3 Strong", 50>>, <<"Other", 0>>}
            /\ stage_result = <<"S2", 100>> <=> c1
            /\ stage_result = <<"S1", 50>> <=> c2
            /\ stage_result = <<"S3 Strong", 50>> <=> c3
            /\ stage_result = <<"Other", 0>> <=> ~(c1 \/ c2 \/ c3)
            /\ (p = a \/ a = b \/ b = c) => stage_result = <<"Other", 0>>
            /\ <<p, a, b, c>> = <<110, 105, 108, 100>> => stage_result = <<"S3 Strong", 50>>

C6_Witness ==
    /\ stage_args = <<Num(110), Num(105), Num(108), Num(100)>>
    /\ stage_result = <<"S3 Strong", 50>>

\* a completed evaluation pass: the run has reached the end of tab 3
PassCompleted == pc = "idle" /\ runs > 0

\* C7: at the end of a completed pass each track's stored grand total is the
\* liquidity total plus that track's sentiment total plus that track's trend
\* total; the one liquidity total serves the three tracks, the SPX and NDX
\* sentiment totals are the same value, and the two shared indicators (surprise
\* index, breadth) have the same score in the US and the HSI sentiment dicts.
C7_TrackTotalIsSum ==
    PassCompleted =>
        /\ \A t \in Tracks :
              /\ total_score[t] = total_score_liq + score_sent[t] + score_trend[t]
              /\ score_trend[t] = sum_values(scores_trend[t])
        /\ score_sent["spx"] = sum_values(scores_sent_us)
        /\ score_sent["ndx"] = score_sent["spx"]
        /\ score_sent["hsi"] = sum_values(scores_sent_hsi)
        /\ scores_sent_us[1] = scores_sent_hsi[1]
        /\ scores_sent_us[2] = scores_sent_hsi[2]

C7_Witness ==
    /\ PassCompleted
    /\ total_score_liq = 300
    /\ score_sent = [t \in Tracks |-> IF t = "hsi" THEN 200 ELSE 300]
    /\ score_trend["ndx"] = 50
    /\ total_score["ndx"] = 650
    /\ scores_sent_us[2] = 100

\* C8: in every reachable state the liquidity total is in [0, 3], each track's
\* sentiment total in [0, 4], each track's trend total in [0, 3] and each
\* track's grand total in [0, 10].
C8_ScoresBounded ==
    /\ total_score_liq \in 0 .. 300
    /\ \A t \in Tracks :
          /\ score_sent[t] \in 0 .. 400
          /\ score_trend[t] \in 0 .. 300
          /\ total_score[t] \in 0 .. 1000

\* a second pass whose liquidity fetch failed, after a first one that scored 3
C8_Witness ==
    /\ PassCompleted
    /\ runs = 2
    /\ cache_liq = <<"failed">>
    /\ total_score_liq = 300
    /\ total_score["spx"] >= 600

\* what an evaluation of one refresh's inputs alone gives (the data sets the
\* fetches returned, the widget values, the date); a liquidity fetch that
\* failed gives the liquidity total 0
FreshLiq(feed, now) ==
    IF liquidity_data[feed].ok THEN sum_values(liquidity_scores_of[feed, now]) ELSE 0

FreshSent(t, feed, w) ==
    sum_values(sentiment_scores(w.citi_value, w.citi_prev, w.r3fi_manual,
                                IF t = "hsi" THEN sentiment_cross_hsi_of[feed]
                                ELSE sentiment_cross_us_of[feed]))

FreshTrend(t, feed, w) ==
    sum_values(trend_scores(w.uptrend_status[t], stage_indicator_of[feed, t], w.market_pulse[t]))

\* C9: each refresh is a fresh, independent evaluation: the category
\* subtotals, grand totals and position percentages presented for a refresh
\* (the stored totals and the overall summary it rendered) are those its own
\* series and manual inputs determine.
C9_FreshIndependentEvaluation ==
    PassCompleted =>
        \E now \in Todays :
            \A t \in Tracks :
                LET liq == FreshLiq(cache_liq[1], now)
                    sent == FreshSent(t, cache_sent[1], widget)
                    trend == FreshTrend(t, cache_trend[1], widget)
                IN  /\ total_score_liq = liq
                    /\ score_sent[t] = sent
                    /\ score_trend[t] = trend
                    /\ total_score[t] = liq + sent + trend
                    /\ summary[t].total = liq + sent + trend
                    /\ summary[t].position_pct = calculate_position_percentage(liq + sent + trend)

\* C10: when the liquidity series cannot be supplied on a refresh, the
\* liquidity total of that refresh is 0 whatever it was before, and the
\* sentiment and trend totals are computed as usual.
C10_LiquidityZeroOnFailure ==
    (PassCompleted /\ cache_liq = <<"failed">>) =>
        /\ total_score_liq = 0
        /\ \A t \in Tracks :
              /\ score_sent[t] = FreshSent(t, cache_sent[1], widget)
              /\ score_trend[t] = FreshTrend(t, cache_trend[1], widget)

\* the score a moving-average cross has when an undefined average counts as a
\* failure of the indicator
CrossOrZero(data, short_period, long_period) ==
    IF Len(data) < short_period \/ Len(data) < long_period THEN 0
    ELSE ma_cross(data, short_period, long_period)

\* C11: a moving-average-cross indicator (TIP 5/20, IBIT 3/8, XLY/XLP 3/8,
\* FFTY 3/8, HK ratio 3/8, 3067.HK 3/8) scores 0 whenever one of its two
\* averages is undefined because the series is shorter than the period.
C11_UndefinedAverageScoresZero ==
    /\ scores_liq # <<>> =>
          LET liq == liquidity_data[cache_liq[1]]
          IN  /\ scores_liq[2] = CrossOrZero(liq.tip, 5, 20)
              /\ scores_liq[3] = CrossOrZero(liq.ibit, 3, 8)
    /\ (scores_sent_us # <<>> /\ sentiment_data[cache_sent[1]].ok) =>
          LET sent == sentiment_data[cache_sent[1]]
          IN  /\ scores_sent_us[3] = CrossOrZero(ratio(sent.xly, sent.xlp), 3, 8)
              /\ scores_sent_us[4] = CrossOrZero(sent.ffty, 3, 8)
              /\ scores_sent_hsi[3] = CrossOrZero(ratio(sent.hk_3109, sent.hk_3437), 3, 8)
              /\ scores_sent_hsi[4] = CrossOrZero(sent.hk_3067, 3, 8)

\* what each category contributes when every failed indicator (series missing,
\* too little history) contributes 0 and every other one its own score
LiqWithFailuresZero(feed, now) ==
    LET liq == liquidity_data[feed]
    IN  IF liq.ok
        THEN indicator1_liq(liq.bnd, liq.irx, get_latest_month_end(now))
             + CrossOrZero(liq.tip, 5, 20) + CrossOrZero(liq.ibit, 3, 8)
        ELSE 0

SentWithFailuresZero(t, feed, w) ==
    LET sent == sentiment_data[feed]
    IN  indicator1_sent(w.citi_value, w.citi_prev) + indicator2_sent(w.r3fi_manual)
        + (IF ~sent.ok THEN 0
           ELSE IF t = "hsi"
           THEN CrossOrZero(ratio(sent.hk_3109, sent.hk_3437), 3, 8) + CrossOrZero(sent.hk_3067, 3, 8)
           ELSE CrossOrZero(ratio(sent.xly, sent.xlp), 3, 8) + CrossOrZero(sent.ffty, 3, 8))

\* C12: a failure of a single indicator never aborts the pass: the pass ends
\* with all three tracks' totals stored, the failed indicator contributing 0
\* and every other indicator its own score.
C12_FailedIndicatorContributesZero ==
    PassCompleted =>
        \E now \in Todays :
            \A t \in Tracks :
                total_score[t] = LiqWithFailuresZero(cache_liq[1], now)
                                 + SentWithFailuresZero(t, cache_sent[1], widget)
                                 + FreshTrend(t, cache_trend[1], widget)

\* C13: calculate_stage given a None price or moving average returns "Error"
\* with score 0, never "Other"; an index whose series is missing or has fewer
\* than 200 observations gets trend indicator-2 score 0 under the label
\* "Error" or "No Data", never a stage label.
C13_UndefinedStageIsError ==
    /\ (stage_result # NoStage /\ None \in Range(stage_args)) => stage_result = <<"Error", 0>>
    /\ (/\ fn_result # NoCall
        /\ (~fn_args.ok \/ fn_args.series = NoneData \/ Len(fn_args.series) < 200)) =>
          /\ fn_result[1][2] = 0
          /\ fn_result[1][1] \in {"Error", "No Data"}

C13_Witness ==
    /\ stage_args[1] = Num(110)
    /\ stage_args[3] = None
    /\ stage_result = <<"Error", 0>>
    /\ fn_args.ok
    /\ Len(fn_args.series) = 199
    /\ fn_result = << <<"No Data", 0>> >>

\* the months of the calendar counted from year 0, and the length of a month
\* (stated independently of monthrange_days)
MonthIndex(date) == Year(date) * 12 + Month(date) - 1

DaysIn(y, m) ==
    28 + ((m + m \div 8) % 2) + (2 % m) + 2 * (1 \div m)
    + (IF m = 2 /\ y % 4 = 0 /\ (y % 100 # 0 \/ y % 400 = 0) THEN 1 ELSE 0)

LastDayOfMonth(idx) == Date(idx \div 12, (idx % 12) + 1, DaysIn(idx \div 12, (idx % 12) + 1))

\* C14: get_latest_month_end returns the last calendar day of the previous
\* month when today's day is greater than 5 and of the month two months back
\* otherwise, the year rolling back: January after the 5th gives 31 December,
\* January up to the 5th 30 November, February up to the 5th 31 December of
\* the previous year.
C14_LatestCompletedMonthEnd ==
    fn_result # NoCall =>
        LET result == fn_result[1]
            today == fn_result[2]
        IN  /\ Day(today) > 5 => result = LastDayOfMonth(MonthIndex(today) - 1)
            /\ Day(today) <= 5 => result = LastDayOfMonth(MonthIndex(today) - 2)
            /\ (Month(today) = 1 /\ Day(today) > 5) => result = Date(Year(today) - 1, 12, 31)
            /\ (Month(today) = 1 /\ Day(today) <= 5) => result = Date(Year(today) - 1, 11, 30)
            /\ (Month(today) = 2 /\ Day(today) <= 5) => result = Date(Year(today) - 1, 12, 31)

C14_Witness ==
    /\ fn_result = <<Date(2023, 12, 31), Date(2024, 2, 5)>>
    /\ fn_args = <<Date(2024, 3, 1)>>

\* C15: as today advances, a later call of get_latest_month_end never returns
\* an earlier date than the call before it, and a second call on the same day
\* returns the same date.
C15_MonthEndNeverMovesBack ==
    [][(fn_result # NoCall /\ fn_result' # NoCall) =>
          /\ fn_result'[1] >= fn_result[1]
          /\ fn_result'[2] = fn_result[2] => fn_result'[1] = fn_result[1]]_vars

\* the last call was on 31 December and today is 1 January: the next call is
\* across the year boundary
C15_Witness ==
    /\ fn_result = <<Date(2023, 11, 30), Date(2023, 12, 31)>>
    /\ fn_args = <<Date(2024, 1, 1)>>

\* the latest observation of a dated series at or before a date, None when
\* the series has none (stated independently of upto / iloc_last)
ValueAsOf(data, date) ==
    LET S == {i \in DOMAIN data : data[i].t <= date}
    IN  IF S = {} THEN None
        ELSE data[CHOOSE i \in S : \A j \in S : data[j].t <= data[i].t].v

\* C16: calc_monthly_return anchors the target at the month-end of the month
\* months_back months before the reference date's month (the year going back
\* once per wrap), uses for each anchor the latest observation at or before
\* it, and returns None, never 0, when either anchor has no observation.
C16_MonthlyReturnAnchors ==
    (fn_result # NoCall /\ fn_result[1] = "calc_monthly_return") =>
        LET data == series_of(fn_args.pick)
            ref_price == ValueAsOf(data, fn_args.reference_date)
            target_price ==
                ValueAsOf(data, LastDayOfMonth(MonthIndex(fn_args.reference_date)
                                               - fn_args.months_back))
            result == fn_result[2]
        IN  IF ref_price = None \/ target_price = None
            THEN result = None /\ result # Num(0)
            ELSE /\ result.d > 0
                 /\ result.n * target_price.n = result.d * (ref_price.n - target_price.n) * 100

\* the target, January 2023, is before the first observation
C16_Witness ==
    /\ fn_args.months_back = 13
    /\ fn_args.reference_date = Date(2024, 2, 29)
    /\ fn_args.pick = <<0, 0, 1200, 600, 600>>
    /\ fn_result = <<"calc_monthly_return", None>>

\* the product of 1 + rate/1200 over the k months ending with month idx, the
\* rate of a month being the one as of its last day; None if a month has none
RECURSIVE CompoundedOver(_, _, _)
CompoundedOver(data, idx, k) ==
    IF k = 0 THEN Num(1)
    ELSE LET rate == ValueAsOf(data, LastDayOfMonth(idx - k + 1))
             rest == CompoundedOver(data, idx, k - 1)
         IN  IF rate = None \/ rest = None THEN None
             ELSE rmul(radd(Num(1), rdiv(rate, Num(1200))), rest)

\* C17: calc_irx_compounded_return uses exactly months_back month-ends (the
\* reference month and the months_back - 1 months before it, across years),
\* compounds rate/100/12 of each multiplicatively, returns None when a month
\* has no rate at or before its month-end, and for months_back = 1 returns
\* rate/12 percent.
C17_IrxCompounded ==
    (fn_result # NoCall /\ fn_result[1] = "calc_irx_compounded_return") =>
        LET data == series_of(fn_args.pick)
            idx == MonthIndex(fn_args.reference_date)
            product == CompoundedOver(data, idx, fn_args.months_back)
            result == fn_result[2]
        IN  /\ IF product = None THEN result = None
               ELSE result = rmul(rsub(product, Num(1)), Num(100))
            /\ (fn_args.months_back = 1 /\ ValueAsOf(data, LastDayOfMonth(idx)) # None) =>
                  result = rdiv(ValueAsOf(data, LastDayOfMonth(idx)), Num(12))

\* three months across the year boundary: the rate 600 as of February 2024,
\* 1200 as of January 2024 and December 2023
C17_Witness ==
    /\ fn_args.months_back = 3
    /\ fn_args.reference_date = Date(2024, 2, 29)
    /\ fn_args.pick = <<0, 0, 0, 1200, 600>>
    /\ fn_result # NoCall
    /\ fn_result[1] = "calc_irx_compounded_return"
    /\ fn_result[2] # None

\* 100 times the 0.33 / 0.33 / 0.34 blend of three whole-number returns
Blend100(x3m, x6m, x11m) == 33 * x3m.n + 33 * x6m.n + 34 * x11m.n

\* C18: the bond-fund vs bill-rate indicator scores 1 exactly when the blend
\* of the bond fund's returns is strictly greater than the blend of the bill
\* returns and 0 otherwise, equality included; with any of the six returns
\* undefined it scores 0, and indicators 2 and 3 are still evaluated.
C18_BlendStrictlyGreater ==
    fn_result # NoCall =>
        LET r == fn_args.returns
            liq == liquidity_data[fn_args.feed]
            scores == fn_result[1]
        IN  /\ Len(scores) = 3
            /\ IF None \in Range(r) THEN scores[1] = 0
               ELSE IF Blend100(r[1], r[2], r[3]) > Blend100(r[4], r[5], r[6])
               THEN scores[1] = 100
               ELSE scores[1] = 0
            /\ scores[2] = ma_cross(liq.tip, 5, 20)
            /\ scores[3] = ma_cross(liq.ibit, 3, 8)

\* equal blends (0.99) from different returns; indicators 2 and 3 score 1
C18_Witness ==
    /\ fn_args.returns = <<Num(3), Num(0), Num(0), Num(0), Num(3), Num(0)>>
    /\ fn_args.feed = "bull"
    /\ fn_result = << <<0, 100, 100>> >>

\* C19: the surprise-index indicator is 0.5 for a current value strictly
\* above 0 plus 0.5 for a strictly positive month-over-month change
\* (current - prior) / |prior| * 100, so it is 0, 0.5 or 1; with prior = 0 the
\* change counts as 0, so current 5 with prior 0 scores 0.5.
C19_SurpriseIndexScore ==
    fn_result # NoCall =>
        LET current == fn_args[1]
            prior == fn_args[2]
            score == fn_result[1]
        IN  /\ score = (IF current > 0 THEN 50 ELSE 0)
                       + (IF prior # 0 /\ current > prior THEN 50 ELSE 0)
            /\ score \in {0, 50, 100}
            /\ (current = 5 /\ prior = 0) => score = 50

C19_Witness ==
    /\ fn_args = <<5, 0>>
    /\ fn_result = <<50>>

\* the sum of the last k observations of a sequence of integers
RECURSIVE SumLast(_, _)
SumLast(data, k) ==
    IF k = 0 THEN 0 ELSE data[Len(data) - k + 1] + SumLast(data, k - 1)

\* C20: calc_ma(series, period) is the arithmetic mean of the last `period`
\* observations when the series has at least that many and None when it has
\* fewer; for [10, 11, 12, 13, 14] and period 5 it is 12.
C20_MovingAverage ==
    fn_result # NoCall =>
        LET data == fn_args.data
            period == fn_args.period
            ma == fn_result[1]
        IN  /\ IF Len(data) >= period
               THEN ma.d > 0 /\ ma.n * period = ma.d * SumLast(data, period)
               ELSE ma = None
            /\ (data = <<10, 11, 12, 13, 14>> /\ period = 5) => ma = Num(12)

C20_Witness ==
    /\ fn_args = [data |-> <<10, 11, 12, 13, 14>>, period |-> 5]
    /\ fn_result = <<Num(12)>>

\* the step that starts a script run
RunStarts == runs' = runs + 1

\* C21: the overall summary is rendered at the start of a pass from the totals
\* the previous pass stored: the first pass of a session shows total 0 and
\* position 0 % for every track; otherwise the summary shows, for each track,
\* the grand total the previous pass stored and its position percentage, and
\* it keeps showing them to the end of the pass whatever this pass computes.
C21_SummaryShowsPreviousPass ==
    [][/\ RunStarts =>
            /\ ~session_live =>
                  \A t \in Tracks : summary'[t].total = 0 /\ summary'[t].position_pct = 0
            /\ \/ \A t \in Tracks :
                     /\ summary'[t].total = total_score[t]
                     /\ summary'[t].position_pct = calculate_position_percentage(total_score[t])
               \/ /\ \A t \in Tracks : summary'[t].total = 0 /\ summary'[t].position_pct = 0
                  /\ total_score' = ZeroScores
                  /\ total_score_liq' = 0
                  /\ score_sent' = ZeroScores
                  /\ score_trend' = ZeroScores
       /\ ~RunStarts =>
            /\ summary' = summary
            /\ \A t \in Tracks :
                  /\ summary'[t].total = total_score[t]
                  /\ summary'[t].position_pct = calculate_position_percentage(total_score[t])
      ]_vars

\* the second pass computed 0 for SPX from its own inputs while its summary
\* shows the 6.0 and 50 % of the first pass
C21_Witness ==
    /\ PassCompleted
    /\ runs = 2
    /\ summary["spx"].total = 600
    /\ summary["spx"].position_pct = 50
    /\ total_score["spx"] = 0

\* the value of the input stored under `key` in a record of manual inputs
InputOf(m, key) ==
    CASE key = "citi_value" -> m.citi_value
      [] key = "citi_prev" -> m.citi_prev
      [] key = "r3fi_manual" -> m.r3fi_manual
      [] key = "uptrend_status_spx" -> m.uptrend_status["spx"]
      [] key = "uptrend_status_ndx" -> m.uptrend_status["ndx"]
      [] key = "uptrend_status_hsi" -> m.uptrend_status["hsi"]
      [] key = "market_pulse_spx" -> m.market_pulse["spx"]
      [] key = "market_pulse_ndx" -> m.market_pulse["ndx"]
      [] key = "market_pulse_hsi" -> m.market_pulse["hsi"]

\* the inputs whose widgets sit in the sentiment tab, and those of the trend tab
SentimentKeys == {"citi_value", "citi_prev", "r3fi_manual"}

TrendKeys == InputKeys \ SentimentKeys

\* the keys whose widget differs from the session value
ChangedKeys == {k \in InputKeys : InputOf(widget, k) # InputOf(session_manual, k)}

\* what the persisted store holds under a key: <<>> when the key is not stored
Persisted(file, key) == IF file.exists THEN file.data[key] ELSE <<>>

\* the step of the pass that compares the widgets of `keys` with the session
\* rewrites the store iff one of them differs: the changed keys map to the
\* widget values, every other key is stored as it was
WritesChangedKeys(keys) ==
    LET K == ChangedKeys \cap keys
    IN  IF K = {}
        THEN user_inputs_file' = user_inputs_file
        ELSE /\ user_inputs_file'.exists
             /\ \A k \in InputKeys :
                   Persisted(user_inputs_file', k) =
                       IF k \in K THEN <<InputOf(widget, k)>> ELSE Persisted(user_inputs_file, k)

\* C22: whenever a manual input (surprise-index current or previous value,
\* breadth percentage, a track's uptrend status or market pulse) differs from
\* its session value during a pass, the persisted inputs are rewritten so that
\* its key maps to the new value and every other persisted key keeps its
\* value; a pass in which no input changed writes nothing; the step that
\* clears the saved inputs leaves an empty store and changes neither the
\* session's manual values nor its scores.
C22_PersistedInputs ==
    [][/\ pc = "tab2" => WritesChangedKeys(SentimentKeys)
       /\ pc = "tab3" => WritesChangedKeys(TrendKeys)
       /\ pc = "tab1" => user_inputs_file' = user_inputs_file
       /\ pc \in {"idle", "rerun"} =>
             \/ user_inputs_file' = user_inputs_file
             \/ /\ session_live
                /\ \A k \in InputKeys : Persisted(user_inputs_file', k) = <<>>
                /\ ~user_inputs_file'.exists
                /\ manualvars' = manualvars
                /\ scorevars' = scorevars
                /\ widget' = session_manual
      ]_vars

\* the breadth percentage was changed to 60 in a session that started from a
\* store holding the surprise-index value 5: the store now holds both and
\* nothing else
C22_Witness ==
    /\ PassCompleted
    /\ runs = 2
    /\ user_inputs_file.exists
    /\ user_inputs_file.data = dict_set(dict_set(EmptyDict, "citi_value", 5), "r3fi_manual", 60)
    /\ citi_value = 5
    /\ r3fi_manual = 60
    /\ total_score["spx"] > 0

====
